---- MODULE Spec2Model ----
(***************************************************************************)
(* Device bridge controller of scrypted-matter (MatterPlugin).             *)
(*                                                                         *)
(* The model follows the Node.js execution of the plugin: a handler runs   *)
(* without interruption until it awaits an operation that needs I/O (the   *)
(* RPCs getComponent, setMixins, turnOn/turnOff and matterServer.start).   *)
(* Awaits of promises that are already settled (tryEnableMixin returning   *)
(* from one of its early returns, discover, sendEvent returning            *)
(* NotSupported) are continued in the same microtask drain, before any     *)
(* other callback is delivered, so they are part of the same step.         *)
(***************************************************************************)
EXTENDS Integers, Sequences, FiniteSets, TLC

----------------------------------------------------------------------------
(* Bounds of the model *)

Range(seq) == {seq[i] : i \in 1..Len(seq)}

\* live events the platform delivers in one run
MaxEvents == 2

\* strings are sequences of characters; the segments of `contexts` are drawn
\* over SegmentAlphabet, `key` over KeyAlphabet
Separator == "."
SegmentAlphabet == {"a", "b", Separator}
KeyAlphabet == {"x", Separator}
\* characters of all the segments of `contexts` together, segments, and
\* characters of `key`
MaxContextChars == 3
MaxContexts == 2
MaxKeyLen == 1

\* device identifiers; IdOrder is the key order of getSystemState()
Ids == {"d1", "d2"}
IdOrder == <<"d1", "d2">>

\* start() and the slots of the callback invocations that can be in flight at
\* the same time
CallbackOrder == <<"cb1", "cb2">>
Callbacks == Range(CallbackOrder)
Start == "start"
Procs == {Start} \cup Callbacks

----------------------------------------------------------------------------
(* Values *)

Undefined == "undefined"

\* this.id, and the identity of some other mixin provider
ThisId == "matter"

includeToken == 4
\* the token an earlier build of the plugin wrote (includeToken was bumped since)
StaleToken == includeToken - 1
Tokens == {StaleToken, includeToken}

\* enum DeviceMixinStatus; NeedsSetup is the position after the four early returns
NotSupported == "NotSupported"
Setup == "Setup"
AlreadySetup == "AlreadySetup"
NeedsSetup == "NeedsSetup"
\* the evaluation ended with an exception instead of a status
Threw == "Threw"
None == "none"

\* enum EventStatus: numeric, in declaration order
Handled == 0
Unhandled == 1
EventNotSupported == 2

\* ScryptedDeviceType values of the modelled devices; the registry holds the
\* adapters registered by types/switch and types/light
Types == {"Switch", "Light", "Camera"}
supportedTypes == {"Switch", "Light"}

\* EventDetails: eventInterface and property
EventDetails ==
    { [eventInterface |-> "OnOff", property |-> "on"],
      [eventInterface |-> "Online", property |-> "online"],
      [eventInterface |-> "Battery", property |-> "batteryLevel"],
      [eventInterface |-> "ScryptedDevice", property |-> "name"],
      [eventInterface |-> "ObjectDetector", property |-> "detected"] }
NoEvent == [eventInterface |-> None, property |-> None]
ObjectDetectorEvent == [eventInterface |-> "ObjectDetector", property |-> "detected"]

\* the devices whose category the user changes while the plugin runs
Reclassifiable == {"d2"}

\* the devices the platform holds at startup: category and whether the
\* capability set has OnOff
DeviceConfigs ==
    { [type |-> [d1 |-> "Switch", d2 |-> "Light"],  onOff |-> [d1 |-> TRUE, d2 |-> TRUE]],
      [type |-> [d1 |-> "Switch", d2 |-> "Light"],  onOff |-> [d1 |-> TRUE, d2 |-> FALSE]] }

\* JavaScript values a report can take: an EventStatus number, {} or undefined
NumberValue(n) == [tag |-> "number", value |-> n]
ObjectValue == [tag |-> "object", value |-> 0]
UndefinedValue == [tag |-> "undefined", value |-> 0]

EmptyObject == [x \in {} |-> includeToken]

----------------------------------------------------------------------------
VARIABLES
    type,             \* device.type, by device id
    onOff,            \* device.interfaces.includes(ScryptedInterface.OnOff)
    known,            \* keys of systemManager.getSystemState() at startup
    mixins,           \* device.mixins, by device id (platform state)
    defaultIncluded,  \* storageSettings.values.defaultIncluded (persisted)
    syncedDevices,    \* storageSettings.values.syncedDevices (persisted)
    pc,               \* position of start() and of each listen callback
    idx,              \* position of the enumeration loop of start()
    dev,              \* the device a suspended handler works on
    evt,              \* eventDetails of a suspended callback
    status,           \* status a suspended callback got from tryEnableMixin
    localMixins,      \* tryEnableMixin: the local copy `mixins`
    localIncluded,    \* tryEnableMixin: the local object `defaultIncluded`
    calls,            \* adapter registry / adapter calls made by the handler so far
    devices,          \* this.devices (keys)
    subscriptions,    \* eventSource.listen registrations, per device
    aggregator,       \* nodes passed to aggregator.addBridgedDevice, per device
    startCount,       \* completed matterServer.start() calls
    console,          \* the distinct lines this.console.warn has written
    evCount,          \* events delivered so far
    evaluated,        \* outcome of the last completed tryEnableMixin, per device
    setups,           \* times tryEnableMixin returned Setup, per device
    discovers,        \* times discover was called, per device
    last,             \* what the most recently completed handler did
    contexts,         \* argument `contexts` of buildStorageKey/get/set/delete
    key,              \* argument `key` of buildStorageKey/get/set/delete
    storage,          \* storageSettings.device.storage: item name -> JSON text
    storeResult       \* outcome of the last buildStorageKey/get/set/delete call

vars == <<type, onOff, known, mixins, defaultIncluded, syncedDevices, pc, idx,
          dev, evt, status, localMixins, localIncluded, calls, devices,
          subscriptions, aggregator, startCount, console, evCount,
          evaluated, setups, discovers, last,
          contexts, key, storage, storeResult>>

\* the arguments and the backing store of the Storage methods
storeVars == <<contexts, key, storage, storeResult>>

\* the state of the controller (start(), the callbacks and the platform)
controllerVars == <<type, onOff, known, mixins, defaultIncluded, syncedDevices, pc, idx,
                    dev, evt, status, localMixins, localIncluded, calls, devices,
                    subscriptions, aggregator, startCount, console, evCount,
                    evaluated, setups, discovers, last>>

platformVars == <<onOff, known, syncedDevices>>

----------------------------------------------------------------------------
(* Pure parts of the code *)

Includes(seq, x) == \E i \in 1..Len(seq) : seq[i] = x


\* Object.keys(systemManager.getSystemState()), in key order
EnumOrder == SelectSeq(IdOrder, LAMBDA d : d \in known)

\* JavaScript !report
Falsy(report) ==
    \/ report.tag = "undefined"
    \/ report.tag = "number" /\ report.value = 0

\* tryEnableMixin without the check of the attachment list (lines 318-320)
TryEnableMixinStatusSkipsMixins(device, mx, di) ==
    IF device = Undefined THEN NotSupported
    ELSE IF device \in DOMAIN di /\ di[device] = includeToken THEN AlreadySetup
    ELSE IF type[device] \notin supportedTypes THEN NotSupported
    ELSE NeedsSetup

\* tryEnableMixin with the adapter check of lines 326-327 moved before the
\* checks of the attachment list and of the record
TryEnableMixinStatusAdapterFirst(device, mx, di) ==
    IF device = Undefined THEN NotSupported
    ELSE IF type[device] \notin supportedTypes THEN NotSupported
    ELSE IF Includes(mx[device], ThisId) THEN AlreadySetup
    ELSE IF device \in DOMAIN di /\ di[device] = includeToken THEN AlreadySetup
    ELSE NeedsSetup

\* tryEnableMixin up to its first await: the early returns of lines 315-327
TryEnableMixinStatus(device, mx, di) ==
    IF device = Undefined THEN NotSupported
    ELSE IF Includes(mx[device], ThisId) THEN AlreadySetup
    ELSE IF device \in DOMAIN di /\ di[device] = includeToken THEN AlreadySetup
    ELSE IF type[device] \notin supportedTypes THEN NotSupported
    ELSE NeedsSetup

\* whether tryEnableMixin reaches supportedTypes.has (line 326)
ReachesHas(device, mx, di) ==
    /\ device # Undefined
    /\ ~Includes(mx[device], ThisId)
    /\ ~(device \in DOMAIN di /\ di[device] = includeToken)

\* defaultIncluded[device.id] = includeToken (line 334)
WithToken(di, d) ==
    [x \in DOMAIN di \cup {d} |-> IF x = d THEN includeToken ELSE di[x]]

\* discover of the switch and light adapters: the node, or undefined
Discover(d) ==
    IF ~onOff[d] THEN Undefined
    ELSE IF type[d] = "Switch" THEN "OnOffPluginUnitDevice"
    ELSE "OnOffLightDevice"

\* sendEvent of the switch and light adapters, up to its first await
SendEventNotSupported(e) == e.eventInterface # "OnOff"

Inc(f, d) == [f EXCEPT ![d] = @ + 1]


\* lines 380-386: a falsy report of an Online or Battery event becomes {}
Report(result, e) ==
    LET r1 == IF Falsy(result) /\ e.eventInterface = "Online" THEN ObjectValue ELSE result
    IN  IF Falsy(r1) /\ e.eventInterface = "Battery" THEN ObjectValue ELSE r1

\* lines 388-391: the console.warn line of a falsy report
Warnings(result, e, d) ==
    IF Falsy(Report(result, e))
    THEN << [eventInterface |-> e.eventInterface, property |-> e.property, type |-> type[d]] >>
    ELSE << >>

\* deviceListen without the guard of line 368
SyncedAlways(d) == TRUE

\* line 368: this.storageSettings.values.syncedDevices.includes(eventSource.id)
Synced(d) == d \in syncedDevices

\* what deviceListen does when it returns before the adapter lookup
Dropped == [suspends |-> FALSE, calls |-> {}, result |-> UndefinedValue, warnings |-> << >>]

\* lines 374-376: supportedTypes.get returned undefined
AdapterAbsentOutcome(d, e) ==
    [suspends |-> FALSE, calls |-> {"getForEvent"}, result |-> UndefinedValue,
     warnings |-> << >>]

\* deviceListen (lines 364-391) as far as it runs without I/O: the guards, the
\* adapter lookup, the call of sendEvent and, when sendEvent returns without
\* awaiting the device, the classification of its result
DeviceListenOutcome(d, e) ==
    IF d = Undefined THEN Dropped
    ELSE IF ~Synced(d) THEN Dropped
    ELSE IF e.eventInterface = "ScryptedDevice" THEN Dropped
    ELSE IF type[d] \notin supportedTypes THEN AdapterAbsentOutcome(d, e)
    ELSE IF SendEventNotSupported(e)
         THEN [suspends |-> FALSE, calls |-> {"getForEvent", "sendEvent"},
               result |-> NumberValue(EventNotSupported),
               warnings |-> Warnings(NumberValue(EventNotSupported), e, d)]
         ELSE [suspends |-> TRUE, calls |-> {"getForEvent", "sendEvent", "turnOnOff"},
               result |-> UndefinedValue, warnings |-> << >>]

----------------------------------------------------------------------------
(* The Storage methods, lines 108-137 *)

Strings(alphabet, n) == UNION {[1..k -> alphabet] : k \in 0..n}
Keys == Strings(KeyAlphabet, MaxKeyLen)

\* the arrays of k segments with at most n characters in all
RECURSIVE ContextsOf(_, _)
ContextsOf(k, n) ==
    IF k = 0 THEN {<< >>}
    ELSE UNION { {<<seg>> \o rest : rest \in ContextsOf(k - 1, n - Len(seg))} :
                 seg \in Strings(SegmentAlphabet, n) }
Contexts == UNION {ContextsOf(k, MaxContextChars) : k \in 0..MaxContexts}

\* buildStorageKey joining the segments with "" instead of "."
RECURSIVE JoinNoSeparator(_, _)
JoinNoSeparator(cs, sep) ==
    IF Len(cs) = 0 THEN << >>
    ELSE cs[1] \o JoinNoSeparator(Tail(cs), sep)

\* Array.prototype.join(sep)
RECURSIVE Join(_, _)
Join(cs, sep) ==
    IF Len(cs) = 0 THEN << >>
    ELSE IF Len(cs) = 1 THEN cs[1]
    ELSE cs[1] \o <<sep>> \o Join(Tail(cs), sep)

\* String.prototype.includes("..")
IncludesDotDot(str) ==
    \E i \in 1..(Len(str) - 1) : str[i] = Separator /\ str[i + 1] = Separator

StartsWithDot(str) == Len(str) > 0 /\ str[1] = Separator
EndsWithDot(str) == Len(str) > 0 /\ str[Len(str)] = Separator

\* buildStorageKey without the endsWith test of line 115
BuildStorageKeyThrowsNoEndsWith(cs, k) ==
    LET contextKey == Join(cs, Separator)
    IN  \/ Len(k) = 0
        \/ Len(contextKey) = 0
        \/ IncludesDotDot(contextKey)
        \/ StartsWithDot(contextKey)

\* the condition of lines 110-116
BuildStorageKeyThrows(cs, k) ==
    LET contextKey == Join(cs, Separator)
    IN  \/ Len(k) = 0
        \/ Len(contextKey) = 0
        \/ IncludesDotDot(contextKey)
        \/ StartsWithDot(contextKey)
        \/ EndsWithDot(contextKey)

\* line 118: `${contextKey}.${key}`
BuildStorageKey(cs, k) == Join(cs, Separator) \o <<Separator>> \o k

\* get/set/delete building the item name without the validation of
\* buildStorageKey: only the test of lines 122, 129 and 134 is left
StoreCallThrowsOnlyEmpty(cs, k) ==
    \/ Len(cs) = 0
    \/ Len(k) = 0

\* lines 122, 129 and 134, followed by the call of buildStorageKey
StoreCallThrows(cs, k) ==
    \/ Len(cs) = 0
    \/ Len(k) = 0
    \/ BuildStorageKeyThrows(cs, k)

\* the values the callers store, and their JSON text (toJson / fromJson of a
\* number: its decimal digits)
StoreValues == {7, 12}
Digits == <<"0", "1", "2", "3", "4", "5", "6", "7", "8", "9">>

RECURSIVE ToJson(_)
ToJson(n) ==
    IF n < 10 THEN <<Digits[n + 1]>>
    ELSE ToJson(n \div 10) \o <<Digits[(n % 10) + 1]>>

DigitValue(c) == CHOOSE v \in 0..9 : Digits[v + 1] = c

RECURSIVE FromJson(_)
FromJson(str) ==
    IF Len(str) = 1 THEN DigitValue(str[1])
    ELSE 10 * FromJson(SubSeq(str, 1, Len(str) - 1)) + DigitValue(str[Len(str)])

\* Storage.setItem, Storage.removeItem and Storage.getItem of the backing store
SetItem(st, name, text) == [n \in DOMAIN st \cup {name} |-> IF n = name THEN text ELSE st[n]]
RemoveItem(st, name) == [n \in DOMAIN st \ {name} |-> st[n]]

\* lines 124-126: getItem, `null` becomes undefined, anything else is parsed
GetValue(st, cs, k) ==
    LET storageKey == BuildStorageKey(cs, k)
    IN  IF storageKey \in DOMAIN st THEN NumberValue(FromJson(st[storageKey]))
        ELSE UndefinedValue

NoStoreCall == [op |-> None, threw |-> FALSE, value |-> UndefinedValue, storageKey |-> << >>]

\* the backing store before the calls: empty, or holding one item
EmptyStorage == [n \in {} |-> << >>]
InitialStorages ==
    {EmptyStorage, SetItem(EmptyStorage, <<"a", Separator, "b", Separator, "x">>, ToJson(7))}

StoreThrew(op) == [op |-> op, threw |-> TRUE, value |-> UndefinedValue, storageKey |-> << >>]
StoreReturned(op, v) ==
    [op |-> op, threw |-> FALSE, value |-> v, storageKey |-> BuildStorageKey(contexts, key)]

\* buildStorageKey(contexts, key)
CallBuildStorageKey ==
    /\ storeResult' = IF BuildStorageKeyThrows(contexts, key)
                      THEN StoreThrew("buildStorageKey")
                      ELSE StoreReturned("buildStorageKey", UndefinedValue)
    /\ UNCHANGED <<contexts, key, storage, controllerVars>>

\* get(contexts, key)
CallGet ==
    /\ storeResult' = IF StoreCallThrows(contexts, key)
                      THEN StoreThrew("get")
                      ELSE StoreReturned("get", GetValue(storage, contexts, key))
    /\ UNCHANGED <<contexts, key, storage, controllerVars>>

\* set(contexts, key, value)
CallSet(value) ==
    /\ IF StoreCallThrows(contexts, key)
       THEN /\ storeResult' = StoreThrew("set")
            /\ storage' = storage
       ELSE /\ storeResult' = StoreReturned("set", UndefinedValue)
            /\ storage' = SetItem(storage, BuildStorageKey(contexts, key), ToJson(value))
    /\ UNCHANGED <<contexts, key, controllerVars>>

\* delete(contexts, key)
CallDelete ==
    /\ IF StoreCallThrows(contexts, key)
       THEN /\ storeResult' = StoreThrew("delete")
            /\ storage' = storage
       ELSE /\ storeResult' = StoreReturned("delete", UndefinedValue)
            /\ storage' = RemoveItem(storage, BuildStorageKey(contexts, key))
    /\ UNCHANGED <<contexts, key, controllerVars>>

----------------------------------------------------------------------------
Init ==
    /\ contexts = << >>
    /\ key = << >>
    /\ storage = EmptyStorage
    /\ storeResult = NoStoreCall
    /\ \E cfg \in DeviceConfigs : type = cfg.type /\ onOff = cfg.onOff
    /\ known \in SUBSET Ids
    /\ mixins \in [Ids -> {<< >>, <<ThisId>>}]
    /\ \E S \in SUBSET known : defaultIncluded \in [S -> Tokens]
    \* a device created after startup has no mixin and no record yet; the plugin
    \* is in the list only of devices an earlier run enrolled and recorded
    /\ \A d \in Ids : Includes(mixins[d], ThisId) => d \in DOMAIN defaultIncluded
    /\ syncedDevices \in SUBSET Ids
    /\ pc = [p \in Procs |-> IF p = Start THEN "enum" ELSE "idle"]
    /\ idx = 1
    /\ dev = [p \in Procs |-> Undefined]
    /\ evt = [p \in Procs |-> NoEvent]
    /\ status = [p \in Procs |-> None]
    /\ localMixins = [p \in Procs |-> << >>]
    /\ localIncluded = [p \in Procs |-> EmptyObject]
    /\ calls = [p \in Procs |-> {}]
    /\ devices = {}
    /\ subscriptions = [d \in Ids |-> 0]
    /\ aggregator = [d \in Ids |-> << >>]
    /\ startCount = 0
    /\ console = {}
    /\ evCount = 0
    /\ evaluated = [d \in Ids |-> None]
    /\ setups = [d \in Ids |-> 0]
    /\ discovers = [d \in Ids |-> 0]
    /\ last = [src |-> Undefined, evt |-> NoEvent, status |-> None,
               result |-> UndefinedValue, warned |-> 0, calls |-> {}, threw |-> FALSE]

----------------------------------------------------------------------------
(* The locals of one handler *)

\* an invocation of a callback takes the first slot that holds no invocation
FreeSlot(p) ==
    \E i \in 1..Len(CallbackOrder) :
        /\ CallbackOrder[i] = p
        /\ pc[p] = "idle"
        /\ \A j \in 1..(i - 1) : pc[CallbackOrder[j]] # "idle"

SetLocals(p, newpc, d, e, st, lm, li, c) ==
    /\ pc' = [pc EXCEPT ![p] = newpc]
    /\ dev' = [dev EXCEPT ![p] = d]
    /\ evt' = [evt EXCEPT ![p] = e]
    /\ status' = [status EXCEPT ![p] = st]
    /\ localMixins' = [localMixins EXCEPT ![p] = lm]
    /\ localIncluded' = [localIncluded EXCEPT ![p] = li]
    /\ calls' = [calls EXCEPT ![p] = c]

\* the handler has returned (or rejected): its locals are gone
Return(p, newpc) == SetLocals(p, newpc, Undefined, NoEvent, None, << >>, EmptyObject, {})

Completed(p, d, e, st, result, warned, c, threw) ==
    [src |-> d, evt |-> e, status |-> st, result |-> result,
     warned |-> warned, calls |-> c, threw |-> threw]

----------------------------------------------------------------------------
(* deviceListen, lines 364-396 *)

\* the call of deviceListen: it either finishes or suspends in sendEvent at
\* `await device.turnOn()` / `await device.turnOff()`
DeviceListen(p, d, e, st, c) ==
    LET o == DeviceListenOutcome(d, e)
    IN  IF o.suspends
        THEN /\ SetLocals(p, "turnOnOff", d, e, st, << >>, EmptyObject, c \cup o.calls)
             /\ UNCHANGED <<console, last>>
        ELSE /\ Return(p, "idle")
             /\ console' = console \cup Range(o.warnings)
             /\ last' = Completed(p, d, e, st, o.result, Len(o.warnings), c \cup o.calls, FALSE)

\* sendEvent returned Handled (part_001 lines 27-32); deviceListen resumes at line 380
TurnOnOffDone(p) ==
    /\ pc[p] = "turnOnOff"
    /\ LET w == Warnings(NumberValue(Handled), evt[p], dev[p])
       IN  /\ console' = console \cup Range(w)
           /\ last' = Completed(p, dev[p], evt[p], status[p], NumberValue(Handled),
                                Len(w), calls[p], FALSE)
    /\ Return(p, "idle")
    /\ UNCHANGED <<storeVars, platformVars, evCount, type, mixins, defaultIncluded, idx, devices, subscriptions,
                   aggregator, startCount, evaluated, setups,
                   discovers>>

\* device.turnOn()/turnOff() rejected: sendEvent and deviceListen reject
TurnOnOffFails(p) ==
    /\ pc[p] = "turnOnOff"
    /\ last' = Completed(p, dev[p], evt[p], status[p], UndefinedValue, 0, calls[p], TRUE)
    /\ Return(p, "idle")
    /\ UNCHANGED <<storeVars, platformVars, evCount, type, mixins, defaultIncluded, idx, devices, subscriptions,
                   aggregator, startCount, console, evaluated, setups, discovers>>

\* a listener registered at line 306 is called with an ObjectDetector event
DeviceEvent(p, d) ==
    /\ FreeSlot(p)
    /\ pc[Start] = "listening"
    /\ subscriptions[d] > 0
    /\ evCount < MaxEvents
    /\ evCount' = evCount + 1
    /\ DeviceListen(p, d, ObjectDetectorEvent, None, {})
    /\ UNCHANGED <<storeVars, platformVars, type, mixins, defaultIncluded, idx, devices, subscriptions,
                   aggregator, startCount, evaluated, setups, discovers>>

----------------------------------------------------------------------------
(* The listen callback of start(), lines 282-311 *)

\* the nodes `addBridgedDevice` is called with; the library is not part of the
\* plugin, so a call with an undefined node either throws or is accepted
AddBridgedThrows(node) == IF node = Undefined THEN BOOLEAN ELSE {FALSE}

\* lines 305-310 without the test of line 304: every dispatched event
\* indexes the device and subscribes to it again
IndexAndDispatchNoHasCheck(p, d, e, st, c) ==
    /\ devices' = devices \cup {d}
    /\ subscriptions' = Inc(subscriptions, d)
    /\ DeviceListen(p, d, e, st, c)

\* lines 302-310: index the device, subscribe to it once, dispatch the event
IndexAndDispatch(p, d, e, st, c) ==
    /\ devices' = devices \cup {d}
    /\ subscriptions' = IF d \in devices THEN subscriptions ELSE Inc(subscriptions, d)
    /\ DeviceListen(p, d, e, st, c)

\* the callback with the condition of the enumeration loop (line 231) at line 285
DiscoverOnEventOrAlready(st) == st = Setup \/ st = AlreadySetup

\* line 285: the statuses for which the callback runs discover
DiscoverOnEvent(st) == st = Setup

\* line 302: the statuses for which the callback indexes and dispatches
DispatchOnEvent(st) == st = Setup \/ st = AlreadySetup

\* lines 302-310 for every status
AfterDiscover(p, d, e, st, c) ==
    IF DispatchOnEvent(st)
    THEN IndexAndDispatch(p, d, e, st, c)
    ELSE /\ Return(p, "idle")
         /\ last' = Completed(p, d, e, st, UndefinedValue, 0, c, FALSE)
         /\ UNCHANGED <<devices, subscriptions, console>>

\* the callback rejects between lines 285 and 300
ListenThrows(p, d, e, st, c) ==
    /\ Return(p, "idle")
    /\ last' = Completed(p, d, e, st, UndefinedValue, 0, c, TRUE)
    /\ UNCHANGED <<devices, subscriptions, console>>

\* lines 285-310, once tryEnableMixin has returned st
ListenAfterStatus(p, d, e, st, c) ==
    IF DiscoverOnEvent(st)
    THEN IF type[d] \notin supportedTypes
         THEN \* supportedTypes.get is undefined: supportedType.discover throws
              /\ ListenThrows(p, d, e, st, c \cup {"getForDiscover"})
              /\ UNCHANGED <<aggregator, discovers>>
         ELSE LET node == Discover(d)
                  c2 == c \cup {"getForDiscover", "discover"}
              IN  /\ aggregator' = [aggregator EXCEPT ![d] = Append(@, node)]
                  /\ discovers' = Inc(discovers, d)
                  /\ \E throws \in AddBridgedThrows(node) :
                         IF throws
                         THEN ListenThrows(p, d, e, st, c2)
                         ELSE AfterDiscover(p, d, e, st, c2)
    ELSE /\ AfterDiscover(p, d, e, st, c)
         /\ UNCHANGED <<aggregator, discovers>>

\* the platform delivers an event to the systemManager.listen callback, which
\* runs tryEnableMixin up to `await systemManager.getComponent` or to an early
\* return, and in the latter case goes on with lines 285-310
LiveEvent(p, src, e) ==
    /\ pc[Start] = "listening"
    /\ FreeSlot(p)
    /\ evCount < MaxEvents
    /\ evCount' = evCount + 1
    \* an event of a device is of one of its interfaces; an event without
    \* source is represented by one event, since no line reads its details
    /\ e.eventInterface = "OnOff" => (src # Undefined /\ onOff[src])
    /\ src = Undefined => e = ObjectDetectorEvent
    /\ LET st == TryEnableMixinStatus(src, mixins, defaultIncluded)
           c == IF ReachesHas(src, mixins, defaultIncluded) THEN {"has"} ELSE {}
       IN  IF st = NeedsSetup
           THEN /\ SetLocals(p, "getComponent", src, e, None,
                             Append(mixins[src], ThisId), defaultIncluded, c)
                /\ UNCHANGED <<evaluated, aggregator, discovers, devices, subscriptions,
                               console, last>>
           ELSE /\ evaluated' = IF src = Undefined THEN evaluated
                                ELSE [evaluated EXCEPT ![src] = st]
                /\ ListenAfterStatus(p, src, e, st, c)
    /\ UNCHANGED <<storeVars, platformVars, type, mixins, defaultIncluded, idx, startCount, setups>>

----------------------------------------------------------------------------
(* tryEnableMixin after its early returns, lines 329-337 *)

\* line 331 resumes; plugins.setMixins(device.id, mixins) is called
GetComponentDone(p) ==
    /\ pc[p] = "getComponent"
    /\ pc' = [pc EXCEPT ![p] = "setMixins"]
    /\ UNCHANGED <<storeVars, platformVars, evCount, type, mixins, defaultIncluded, idx, dev, evt, status,
                   localMixins, localIncluded, calls, devices, subscriptions, aggregator,
                   startCount, console, evaluated, setups, discovers, last>>

\* lines 334-335: the local object gets the token and is stored as a whole
RecordWritten(p) == WithToken(localIncluded[p], dev[p])

\* the enumeration loop with the condition of the callback (line 285) at line 231
DiscoverOnStartupSetupOnly(st) == st = Setup

\* line 231: the statuses for which the enumeration runs discover
DiscoverOnStartup(st) == st = Setup \/ st = AlreadySetup

\* lines 231-245 of the enumeration loop, once tryEnableMixin has returned st
\* for EnumOrder[idx]
StartAfterStatus(d, st) ==
    IF ~DiscoverOnStartup(st)
    THEN /\ Return(Start, "enum")
         /\ idx' = idx + 1
         /\ UNCHANGED <<aggregator, discovers>>
    ELSE IF type[d] \notin supportedTypes
    THEN \* supportedTypes.get is undefined: supportedType.discover throws
         /\ Return(Start, "failed")
         /\ UNCHANGED <<aggregator, discovers, idx>>
    ELSE LET node == Discover(d)
         IN  /\ aggregator' = [aggregator EXCEPT ![d] = Append(@, node)]
             /\ discovers' = Inc(discovers, d)
             /\ \E throws \in AddBridgedThrows(node) :
                    IF throws
                    THEN Return(Start, "failed") /\ idx' = idx
                    ELSE Return(Start, "enum") /\ idx' = idx + 1

\* setMixins resolved: the platform has stored the list; lines 334-337 run and
\* the caller goes on with the Setup result
SetMixinsOk(p) ==
    /\ pc[p] = "setMixins"
    /\ mixins' = [mixins EXCEPT ![dev[p]] = localMixins[p]]
    /\ defaultIncluded' = RecordWritten(p)
    /\ setups' = Inc(setups, dev[p])
    /\ evaluated' = [evaluated EXCEPT ![dev[p]] = Setup]
    /\ IF p = Start
       THEN /\ StartAfterStatus(dev[p], Setup)
            /\ UNCHANGED <<devices, subscriptions, console, last>>
       ELSE /\ ListenAfterStatus(p, dev[p], evt[p], Setup, calls[p])
            /\ idx' = idx
    /\ UNCHANGED <<storeVars, platformVars, evCount, type, startCount>>

\* tryEnableMixin with lines 334-335 moved before the await of line 332: the
\* record is written although setMixins rejects
SetMixinsFailsAfterWrite(p) ==
    /\ pc[p] = "setMixins"
    /\ evaluated' = [evaluated EXCEPT ![dev[p]] = Threw]
    /\ defaultIncluded' = RecordWritten(p)
    /\ IF p = Start
       THEN Return(p, "failed") /\ last' = last
       ELSE /\ Return(p, "idle")
            /\ last' = Completed(p, dev[p], evt[p], Threw, UndefinedValue, 0, calls[p], TRUE)
    /\ UNCHANGED <<storeVars, platformVars, evCount, type, mixins, idx, devices, subscriptions,
                   aggregator, startCount, console, setups, discovers>>

\* setMixins rejected: tryEnableMixin rejects at line 332, and so does its caller
SetMixinsFails(p) ==
    /\ pc[p] = "setMixins"
    /\ evaluated' = [evaluated EXCEPT ![dev[p]] = Threw]
    /\ IF p = Start
       THEN Return(p, "failed") /\ last' = last
       ELSE /\ Return(p, "idle")
            /\ last' = Completed(p, dev[p], evt[p], Threw, UndefinedValue, 0, calls[p], TRUE)
    /\ UNCHANGED <<storeVars, platformVars, evCount, type, mixins, defaultIncluded, idx, devices, subscriptions,
                   aggregator, startCount, console, setups,
                   discovers>>

----------------------------------------------------------------------------
(* start(), lines 147-312 *)

\* one round of the loop of line 227, up to the first await that needs I/O
EnumStep ==
    /\ pc[Start] = "enum"
    /\ idx <= Len(EnumOrder)
    /\ LET d == EnumOrder[idx]
           st == TryEnableMixinStatus(d, mixins, defaultIncluded)
       IN  IF st = NeedsSetup
           THEN /\ SetLocals(Start, "getComponent", d, NoEvent, None,
                             Append(mixins[d], ThisId), defaultIncluded, {})
                /\ UNCHANGED <<evaluated, aggregator, discovers, idx>>
           ELSE /\ evaluated' = [evaluated EXCEPT ![d] = st]
                /\ StartAfterStatus(d, st)
    /\ UNCHANGED <<storeVars, platformVars, evCount, type, mixins, defaultIncluded, devices, subscriptions,
                   startCount, console, setups, last>>

\* start() calling matterServer.start() without waiting for the loop to end
EnumDoneEarly ==
    /\ pc[Start] = "enum"
    /\ pc' = [pc EXCEPT ![Start] = "startServer"]
    /\ UNCHANGED <<storeVars, platformVars, evCount, type, mixins, defaultIncluded, idx, dev, evt,
                   status, localMixins, localIncluded, calls, devices, subscriptions,
                   aggregator, startCount, console, evaluated, setups, discovers, last>>

\* the loop is over: lines 248-258 up to `await this.matterServer.start()`
EnumDone ==
    /\ pc[Start] = "enum"
    /\ idx > Len(EnumOrder)
    /\ pc' = [pc EXCEPT ![Start] = "startServer"]
    /\ UNCHANGED <<storeVars, platformVars, evCount, type, mixins, defaultIncluded, idx, dev, evt, status,
                   localMixins, localIncluded, calls, devices, subscriptions, aggregator,
                   startCount, console, evaluated, setups,
                   discovers, last>>

\* matterServer.start() resolved; lines 267-311 register the listen callback
StartServerOk ==
    /\ pc[Start] = "startServer"
    /\ pc' = [pc EXCEPT ![Start] = "listening"]
    /\ startCount' = startCount + 1
    /\ UNCHANGED <<storeVars, platformVars, evCount, type, mixins, defaultIncluded, idx, dev, evt, status,
                   localMixins, localIncluded, calls, devices, subscriptions, aggregator,
                   console, evaluated, setups, discovers, last>>

\* matterServer.start() rejected: start() rejects, nothing listens
StartServerFails ==
    /\ pc[Start] = "startServer"
    /\ pc' = [pc EXCEPT ![Start] = "failed"]
    /\ UNCHANGED <<storeVars, platformVars, evCount, type, mixins, defaultIncluded, idx, dev, evt, status,
                   localMixins, localIncluded, calls, devices, subscriptions, aggregator,
                   startCount, console, evaluated, setups,
                   discovers, last>>

----------------------------------------------------------------------------
(* The platform *)

\* the user gives a device another category (device.type), one without adapter
Reclassify(d) ==
    /\ d \in Reclassifiable
    /\ type[d] \in supportedTypes
    /\ type' = [type EXCEPT ![d] = "Camera"]
    /\ UNCHANGED <<storeVars, platformVars, evCount, mixins, defaultIncluded, pc, idx, dev, evt, status,
                   localMixins, localIncluded, calls, devices, subscriptions, aggregator,
                   startCount, console, evaluated, setups,
                   discovers, last>>

----------------------------------------------------------------------------
Next ==
    \/ EnumStep
    \/ EnumDone
    \/ StartServerOk
    \/ StartServerFails
    \/ \E p \in Procs : GetComponentDone(p)
    \/ \E p \in Procs : SetMixinsOk(p)
    \/ \E p \in Procs : SetMixinsFails(p)
    \/ \E p \in Callbacks : \E src \in Ids \cup {Undefined} : \E e \in EventDetails :
           LiveEvent(p, src, e)
    \/ \E p \in Callbacks : \E d \in Ids : DeviceEvent(p, d)
    \/ \E p \in Callbacks : TurnOnOffDone(p)
    \/ \E p \in Callbacks : TurnOnOffFails(p)
    \/ \E d \in Ids : Reclassify(d)

Spec == Init /\ [][Next]_vars

----------------------------------------------------------------------------
(* The Storage methods on their own: the arguments are drawn at the start   *)
(* and the methods are called on them in any order; the controller is idle  *)

StoreInit ==
    /\ contexts \in Contexts
    /\ key \in Keys
    /\ storage \in InitialStorages
    /\ storeResult = NoStoreCall
    /\ type = [d \in Ids |-> "Switch"]
    /\ onOff = [d \in Ids |-> TRUE]
    /\ known = {}
    /\ mixins = [d \in Ids |-> << >>]
    /\ defaultIncluded = EmptyObject
    /\ syncedDevices = {}
    /\ pc = [p \in Procs |-> IF p = Start THEN "enum" ELSE "idle"]
    /\ idx = 1
    /\ dev = [p \in Procs |-> Undefined]
    /\ evt = [p \in Procs |-> NoEvent]
    /\ status = [p \in Procs |-> None]
    /\ localMixins = [p \in Procs |-> << >>]
    /\ localIncluded = [p \in Procs |-> EmptyObject]
    /\ calls = [p \in Procs |-> {}]
    /\ devices = {}
    /\ subscriptions = [d \in Ids |-> 0]
    /\ aggregator = [d \in Ids |-> << >>]
    /\ startCount = 0
    /\ console = {}
    /\ evCount = 0
    /\ evaluated = [d \in Ids |-> None]
    /\ setups = [d \in Ids |-> 0]
    /\ discovers = [d \in Ids |-> 0]
    /\ last = [src |-> Undefined, evt |-> NoEvent, status |-> None,
               result |-> UndefinedValue, warned |-> 0, calls |-> {}, threw |-> FALSE]

StoreNext ==
    \/ CallBuildStorageKey
    \/ CallGet
    \/ \E value \in StoreValues : CallSet(value)
    \/ CallDelete

StoreSpec == StoreInit /\ [][StoreNext]_vars

----------------------------------------------------------------------------
(* Properties *)

\* what tryEnableMixin would decide for d in the current state
Status(d) == TryEnableMixinStatus(d, mixins, defaultIncluded)

\* an evaluation of d is suspended in tryEnableMixin
Enrolling(d) == \E p \in Procs : dev[p] = d /\ pc[p] \in {"getComponent", "setMixins"}

HasStaleRecord(d) == d \in DOMAIN defaultIncluded /\ defaultIncluded[d] # includeToken

\* bridge nodes the aggregator holds for d
Nodes(d) == SelectSeq(aggregator[d], LAMBDA n : n # Undefined)

\* the interfaces of lines 380 and 384
InfraInterfaces == {"Online", "Battery"}

DispatcherCalls == {"getForEvent", "sendEvent", "turnOnOff"}

\* C1 as stated: for any device, once tryEnableMixin has been evaluated for it
\* and nothing else touched the device, the next evaluation returns AlreadySetup.
C1_SecondIsAlreadySetup ==
    \A d \in Ids : (evaluated[d] # None /\ ~Enrolling(d)) => Status(d) = AlreadySetup

\* C1 amended: once an evaluation of a device has returned Setup or
\* AlreadySetup, the next evaluation returns AlreadySetup: it takes one of the
\* early returns and reaches neither setMixins nor a second Setup.
C1_Idempotence ==
    \A d \in Ids : evaluated[d] \in {Setup, AlreadySetup} => Status(d) = AlreadySetup

\* a device was set up once and a later event for it evaluated to AlreadySetup
C1_Witness ==
    \E d \in Ids : setups[d] = 1 /\ last.src = d /\ last.status = AlreadySetup
                   /\ evaluated[d] = AlreadySetup

\* C2: tryEnableMixin returns Setup at most once per device identifier and the
\* aggregator never holds two nodes for one device.
C2_SingleEnrollment ==
    \A d \in Ids : setups[d] <= 1 /\ Len(Nodes(d)) <= 1

\* the step in which setMixins rejects for the evaluation of slot p
C3_Rejected(p) ==
    pc[p] = "setMixins" /\ pc'[p] # "setMixins" /\ evaluated'[dev[p]] = Threw

\* C3: when setMixins rejects, nothing is committed: the record and the
\* attachment lists are unchanged, no Setup is returned, and the device is
\* decided as before: with the plugin still absent from its attachment list
\* (and its category still adapted) the next evaluation attempts setup again.
C3_FailureNotCommitted ==
    /\ [][\A p \in Procs : C3_Rejected(p) =>
            /\ defaultIncluded' = defaultIncluded
            /\ mixins' = mixins
            /\ setups' = setups
            /\ TryEnableMixinStatus(dev[p], mixins', defaultIncluded')
                 = TryEnableMixinStatus(dev[p], mixins, defaultIncluded)]_vars
    /\ [](\A d \in Ids :
            (evaluated[d] = Threw /\ ~Includes(mixins[d], ThisId)
                /\ type[d] \in supportedTypes)
                => Status(d) = NeedsSetup)

\* an event's evaluation threw and the next event for the device is in
\* tryEnableMixin again, on its own
C3_Witness ==
    \E p \in Callbacks :
        /\ pc[p] = "getComponent"
        /\ last.status = Threw /\ last.src = dev[p]
        /\ evaluated[dev[p]] = Threw
        /\ \A q \in Callbacks \ {p} : pc[q] = "idle"

\* C4: after a bump of includeToken a device enrolled under the older token is
\* set up again by its next evaluation; a record carrying a stale token is
\* never treated as enrolled.
C4_StaleNeverEnrolled ==
    \A d \in Ids : evaluated[d] = AlreadySetup => ~HasStaleRecord(d)

\* C5 as stated: discover is called for a device only when tryEnableMixin
\* returned Setup for it.
C5_DiscoverOnlyOnSetup ==
    \A d \in Ids : discovers[d] <= setups[d]

\* C5 amended: a listen callback calls discover only when tryEnableMixin
\* returned Setup, never on AlreadySetup; the enumeration loop of start() calls
\* it for Setup and for AlreadySetup.
C5_DiscoverPerPath ==
    /\ [][\A d \in Ids : discovers'[d] # discovers[d] =>
            /\ discovers'[d] = discovers[d] + 1
            /\ \/ setups'[d] = setups[d] + 1
               \/ pc[Start] = "enum" /\ evaluated'[d] = AlreadySetup]_vars
    /\ []("discover" \in last.calls => last.status = Setup)

\* the enumeration discovered an AlreadySetup device, and a later event for it
\* evaluated to AlreadySetup without a discover
C5_Witness ==
    /\ last.src \in Ids
    /\ last.status = AlreadySetup
    /\ type[last.src] \in supportedTypes
    /\ setups[last.src] = 0
    /\ discovers[last.src] = 1

\* C6: when the enumeration is over and matterServer.start() is called, every
\* enumerated device that evaluated to Setup or AlreadySetup has been
\* discovered and passed to addBridgedDevice.
C6_StartupBridgesEnrolled ==
    pc[Start] \in {"startServer", "listening"} =>
        \A d \in known : evaluated[d] \in {Setup, AlreadySetup} =>
            (discovers[d] >= 1 /\ Len(aggregator[d]) = discovers[d])

\* both kinds at once, right before the server starts
C6_Witness ==
    /\ pc[Start] = "startServer"
    /\ \E d1, d2 \in known :
        /\ evaluated[d1] = Setup /\ evaluated[d2] = AlreadySetup
        /\ Len(Nodes(d1)) = 1 /\ Len(Nodes(d2)) = 1

\* C7: an event for which sendEvent returned NotSupported logs exactly one
\* warning naming interface, property and category, unless the interface is
\* Online or Battery, and then none.
C7_NotSupportedClassified ==
    last.result = NumberValue(EventNotSupported) =>
        IF last.evt.eventInterface \in InfraInterfaces
        THEN last.warned = 0
        ELSE /\ last.warned = 1
             /\ [eventInterface |-> last.evt.eventInterface,
                 property |-> last.evt.property,
                 type |-> type[last.src]] \in console

\* C8: an event for which sendEvent returned Handled logs no warning.
C8_HandledIsSilent ==
    last.result = NumberValue(Handled) => last.warned = 0

\* C9 as stated: an event of a device that is not in syncedDevices makes no
\* call into the adapter registry at all.
C9_NoRegistryCall ==
    last.src \notin syncedDevices => last.calls = {}

\* C9 amended: for an event of a device that is not in syncedDevices,
\* deviceListen makes no adapter lookup and no sendEvent call and logs nothing;
\* the calls tryEnableMixin and the Setup branch make (supportedTypes.has,
\* supportedTypes.get, discover) are the only ones.
C9_SyncGating ==
    /\ last.src \notin syncedDevices =>
           (last.calls \cap DispatcherCalls = {} /\ last.warned = 0)
    /\ \A p \in Callbacks : (dev[p] # Undefined /\ dev[p] \notin syncedDevices) =>
           (calls[p] \cap DispatcherCalls = {} /\ pc[p] # "turnOnOff")

\* an event of a device outside syncedDevices set the device up and
\* discovered it, and went no further
C9_Witness ==
    /\ last.src \in Ids \ syncedDevices
    /\ last.status = Setup
    /\ "discover" \in last.calls
    /\ ~last.threw

\* the step that handles, from delivery to return, an event of a device whose
\* category has no adapter
C10_Handled ==
    /\ evCount' = evCount + 1
    /\ pc' = pc
    /\ last'.src \in Ids
    /\ type[last'.src] \notin supportedTypes

\* C10: handling an event of a device without adapter logs nothing, throws
\* nothing and changes neither the record, nor this.devices, nor the
\* subscriptions, nor the aggregator.
C10_NoStateChange ==
    [][C10_Handled =>
        /\ last'.warned = 0 /\ ~last'.threw /\ console' = console
        /\ UNCHANGED <<defaultIncluded, devices, subscriptions, aggregator>>]_vars

\* C11: no caller of the adapter lookup fails because the lookup found no
\* adapter: neither start() in its enumeration loop nor a listen callback
\* rejects at a device whose category has no adapter, whatever the device
\* evaluated to.
C11_AbsentAdapterSkipped ==
    [][/\ (/\ pc[Start] \in {"enum", "setMixins"}
           /\ pc'[Start] = "failed"
           /\ evaluated'[EnumOrder[idx]] \in {Setup, AlreadySetup})
          => type[EnumOrder[idx]] \in supportedTypes
       /\ (last' # last /\ last'.threw /\ last'.status = Setup)
          => type[last'.src] \in supportedTypes]_vars

\* C12: a failure while enrolling or discovering one device does not keep
\* start() from evaluating the other enumerated devices: when start() has
\* failed, every enumerated device has been evaluated (only the start of the
\* server itself is left to fail).
C12_FailureIsolation ==
    pc[Start] = "failed" => \A d \in known : evaluated[d] # None

\* matterServer.start() has been called
ServerStartCalled == pc[Start] \in {"startServer", "listening"} \/ startCount > 0

\* C15: matterServer.start() is called at most once in a run, and only when
\* the enumeration loop has evaluated every enumerated device; it has completed
\* exactly once when the listen callback is registered, and no callback (so no
\* live enrollment) runs before that, in particular not during the enumeration.
C15_StartOnceAfterEnumeration ==
    /\ [](startCount <= 1)
    /\ [](ServerStartCalled =>
            (idx > Len(EnumOrder) /\ \A d \in known : evaluated[d] # None))
    /\ [](pc[Start] = "listening" <=> startCount = 1)
    /\ []((evCount > 0 \/ devices # {} \/ \E p \in Callbacks : pc[p] # "idle")
            => pc[Start] = "listening")
    /\ [][/\ (pc'[Start] = "startServer" /\ pc[Start] # "startServer")
              => (pc[Start] = "enum" /\ startCount = 0)
          /\ pc[Start] \in {"startServer", "listening", "failed"}
              => pc'[Start] \in {"startServer", "listening", "failed"}
          /\ pc[Start] \in {"listening", "failed"} => pc'[Start] = pc[Start]]_vars

\* the server was started after the enumeration of an enrolled device, and a
\* live event is now enrolling another device
C15_Witness ==
    /\ startCount = 1
    /\ pc[Start] = "listening"
    /\ \E d \in known : evaluated[d] \in {Setup, AlreadySetup}
    /\ \E p \in Callbacks : pc[p] = "setMixins"

\* the rules of the enrollment state machine, first match wins; the last
\* rule stands for "setup is performed"
RuleTable(device) ==
    CASE device = Undefined -> NotSupported
      [] device # Undefined /\ ThisId \in Range(mixins[device]) -> AlreadySetup
      [] OTHER ->
            IF device \in DOMAIN defaultIncluded /\ defaultIncluded[device] = includeToken
            THEN AlreadySetup
            ELSE IF type[device] \in supportedTypes THEN NeedsSetup ELSE NotSupported

\* start() evaluates the device at idx in this step
C16_Enumerates ==
    /\ pc[Start] = "enum"
    /\ idx <= Len(EnumOrder)
    /\ (idx' # idx \/ pc'[Start] # "enum")

\* C16: every evaluation of tryEnableMixin gives the result of the first rule
\* that matches (absent device, attached, recorded with the current token, no
\* adapter, otherwise setup); the attachment list and the record change only
\* when the last rule applies and setMixins has resolved, and then the plugin
\* is attached, the token recorded and Setup returned.
C16_RuleOrder ==
    [][/\ evCount' = evCount + 1 =>
            /\ UNCHANGED <<mixins, defaultIncluded>>
            /\ (pc' = pc /\ last'.status # None) => last'.status = RuleTable(last'.src)
            /\ \A p \in Callbacks :
                /\ (pc[p] = "idle" /\ pc'[p] = "getComponent")
                      => RuleTable(dev'[p]) = NeedsSetup
                /\ (pc[p] = "idle" /\ pc'[p] = "turnOnOff" /\ status'[p] # None)
                      => status'[p] = RuleTable(dev'[p])
       /\ C16_Enumerates =>
            /\ UNCHANGED <<mixins, defaultIncluded>>
            /\ IF pc'[Start] = "getComponent"
               THEN RuleTable(EnumOrder[idx]) = NeedsSetup
               ELSE evaluated'[EnumOrder[idx]] = RuleTable(EnumOrder[idx])
       /\ \A p \in Procs :
            (pc[p] = "setMixins" /\ pc'[p] # "setMixins" /\ evaluated'[dev[p]] = Setup) =>
                /\ ThisId \in Range(mixins'[dev[p]])
                /\ dev[p] \in DOMAIN defaultIncluded'
                /\ defaultIncluded'[dev[p]] = includeToken
                /\ setups'[dev[p]] = setups[dev[p]] + 1
       /\ (mixins' # mixins \/ defaultIncluded' # defaultIncluded) =>
            \E p \in Procs : /\ pc[p] = "setMixins"
                             /\ setups'[dev[p]] = setups[dev[p]] + 1]_vars

\* a device without adapter and without the plugin in its attachment list
\* evaluated to AlreadySetup: the record rule matched before the adapter rule
C16_Witness ==
    /\ last.src \in Ids
    /\ last.status = AlreadySetup
    /\ type[last.src] \notin supportedTypes
    /\ ThisId \notin Range(mixins[last.src])
    /\ last.src \in DOMAIN defaultIncluded
    /\ defaultIncluded[last.src] = includeToken

\* C17 (steady state kept): once the enrollment of a device has returned
\* Setup, every evaluation of the device that completes later returns
\* AlreadySetup: Setup is not returned again and no evaluation throws.
C17_SteadyStateKept ==
    [][\A d \in Ids : setups[d] >= 1 =>
            /\ setups'[d] = setups[d]
            /\ evaluated'[d] \in {evaluated[d], AlreadySetup}]_vars

\* C18: when no enrollment is in flight, the record holds the current token
\* for every device whose enrollment returned Setup: no write of the record
\* is lost, whatever the interleaving.
C18_NoLostRecord ==
    (\A p \in Procs : pc[p] \notin {"getComponent", "setMixins"}) =>
        \A d \in Ids : setups[d] >= 1 =>
            (d \in DOMAIN defaultIncluded /\ defaultIncluded[d] = includeToken)

\* C19: addBridgedDevice is never called with an absent node, neither by the
\* enumeration loop nor by a listen callback.
C19_NoAbsentNode ==
    \A d \in Ids : \A i \in 1..Len(aggregator[d]) : aggregator[d][i] # Undefined

\* the block of lines 305-306 has run for d in this step
Indexed(d) == d \in devices' \ devices \/ subscriptions'[d] # subscriptions[d]

\* C21: for each device identifier the block that adds the device to
\* this.devices and registers its per-device subscription runs at most once,
\* however many live events arrive and however their callbacks interleave: a
\* device is in the index exactly when it has its one subscription, it never
\* leaves the index, and the step that puts it there is a step of a listen
\* callback whose tryEnableMixin returned Setup or AlreadySetup for it.
C21_IndexedOnce ==
    /\ [](\A d \in Ids :
            /\ subscriptions[d] <= 1
            /\ d \in devices <=> subscriptions[d] = 1)
    /\ [][\A d \in Ids :
             /\ d \in devices => d \in devices'
             /\ Indexed(d) =>
                    /\ d \notin devices
                    /\ subscriptions'[d] = subscriptions[d] + 1
                    /\ pc[Start] = "listening"
                    /\ evaluated'[d] \in {Setup, AlreadySetup}]_vars

\* C21 happens: two callbacks for the same device were in tryEnableMixin at
\* the same time, both got Setup, both had their node accepted and reached
\* line 302, and the device is indexed with one subscription.
C21_Witness ==
    \E d \in Ids :
        /\ setups[d] = 2
        /\ Len(aggregator[d]) = 2
        /\ \A i \in 1..2 : aggregator[d][i] # Undefined
        /\ \A p \in Callbacks : pc[p] = "idle"
        /\ d \in devices
        /\ subscriptions[d] = 1

----------------------------------------------------------------------------
(* Properties of the Storage methods, checked under StoreSpec *)

EmptyString == << >>
StrA == <<"a">>
StrB == <<"b">>
StrX == <<"x">>
StrADotB == <<"a", Separator, "b">>
StrADotBDotX == <<"a", Separator, "b", Separator, "x">>

BuildCalled == storeResult.op = "buildStorageKey"
BuildFailsFor(cs, k) == (BuildCalled /\ contexts = cs /\ key = k) => storeResult.threw
BuildReturnsFor(cs, k, str) ==
    (BuildCalled /\ contexts = cs /\ key = k) =>
        (~storeResult.threw /\ storeResult.storageKey = str)

\* C13 as stated: buildStorageKey([], "x"), (["a"], ""), (["a", ""], "x") and
\* (["a.b"], "x") throw, and (["a", "b"], "x") returns "a.b.x".
C13_KeyExamples ==
    /\ BuildFailsFor(<< >>, StrX)
    /\ BuildFailsFor(<<StrA>>, EmptyString)
    /\ BuildFailsFor(<<StrA, EmptyString>>, StrX)
    /\ BuildFailsFor(<<StrADotB>>, StrX)
    /\ BuildReturnsFor(<<StrA, StrB>>, StrX, StrADotBDotX)

\* C13 amended: buildStorageKey([], "x"), (["a"], "") and (["a", ""], "x")
\* throw; (["a", "b"], "x") returns "a.b.x", and so does (["a.b"], "x"), whose
\* joined context "a.b" has no "..", and no "." at either end.
C13_KeyExamplesAmended ==
    /\ BuildFailsFor(<< >>, StrX)
    /\ BuildFailsFor(<<StrA>>, EmptyString)
    /\ BuildFailsFor(<<StrA, EmptyString>>, StrX)
    /\ BuildReturnsFor(<<StrADotB>>, StrX, StrADotBDotX)
    /\ BuildReturnsFor(<<StrA, StrB>>, StrX, StrADotBDotX)

\* buildStorageKey was called with (["a.b"], "x") and returned
C13_Witness ==
    /\ BuildCalled
    /\ contexts = <<StrADotB>> /\ key = StrX
    /\ ~storeResult.threw
    /\ storeResult.storageKey = StrADotBDotX

\* the '.'-joined context and the item name joinedContext + "." + key
JoinedContext == Join(contexts, Separator)
ItemName == JoinedContext \o <<Separator>> \o key

\* the condition under which the claim says the calls fail
InvalidKey ==
    \/ key = EmptyString
    \/ contexts = << >>
    \/ JoinedContext = EmptyString
    \/ \E i \in 1..(Len(JoinedContext) - 1) :
           SubSeq(JoinedContext, i, i + 1) = <<Separator, Separator>>
    \/ Head(JoinedContext) = Separator
    \/ JoinedContext[Len(JoinedContext)] = Separator

\* the items other than ItemName are the same before and after the step
OtherItemsKept ==
    /\ DOMAIN storage' \ {ItemName} = DOMAIN storage \ {ItemName}
    /\ \A n \in DOMAIN storage \ {ItemName} : storage'[n] = storage[n]

\* C14: buildStorageKey, get, set and delete throw exactly when the key is
\* empty, contexts is empty, or the joined context is empty, contains "..", or
\* starts or ends with "."; a call that throws leaves the store unchanged; a
\* call that returns works on the one item joinedContext + "." + key: get
\* returns its parsed value or undefined, set stores the value's JSON text
\* there, delete removes it, and no other item changes.
C14_StoreValidation ==
    /\ [](storeResult.op # None =>
            /\ storeResult.threw <=> InvalidKey
            /\ ~storeResult.threw => storeResult.storageKey = ItemName)
    /\ [][/\ storeResult'.threw => storage' = storage
          /\ storeResult'.op \in {"buildStorageKey", "get"} => storage' = storage
          /\ (storeResult'.op = "get" /\ ~storeResult'.threw) =>
                storeResult'.value =
                    IF ItemName \in DOMAIN storage
                    THEN NumberValue(FromJson(storage[ItemName]))
                    ELSE UndefinedValue
          /\ (storeResult'.op = "set" /\ ~storeResult'.threw) =>
                /\ ItemName \in DOMAIN storage'
                /\ storage'[ItemName] \in {ToJson(v) : v \in StoreValues}
                /\ OtherItemsKept
          /\ (storeResult'.op = "delete" /\ ~storeResult'.threw) =>
                /\ ItemName \notin DOMAIN storage'
                /\ OtherItemsKept]_vars

\* set was called with a context that joins to a string with ".." on a store
\* that holds an item: it threw and the item is still there
C14_Witness ==
    /\ storeResult.op = "set"
    /\ storeResult.threw
    /\ IncludesDotDot(JoinedContext)
    /\ key # EmptyString
    /\ DOMAIN storage = {StrADotBDotX}

\* the (contexts, key) pairs the methods accept
ValidPairs ==
    {pair \in Contexts \X Keys :
        /\ ~StoreCallThrows(pair[1], pair[2])
        /\ \A i \in 1..Len(pair[1]) : pair[1][i] # EmptyString}

SeparatorFree(cs, k) ==
    /\ Separator \notin Range(k)
    /\ \A i \in 1..Len(cs) : Separator \notin Range(cs[i])

SeparatorFreePairs == {pair \in ValidPairs : SeparatorFree(pair[1], pair[2])}

\* set or delete has returned in this step
C20_Writes == storeResult'.op \in {"set", "delete"} /\ ~storeResult'.threw

\* the pairs of `others` have another item name than (contexts, key), and get
\* returns for them what it returned before the step
C20_Untouched(others) ==
    \A pair \in others \ {<<contexts, key>>} :
        /\ BuildStorageKey(pair[1], pair[2]) # BuildStorageKey(contexts, key)
        /\ GetValue(storage', pair[1], pair[2]) = GetValue(storage, pair[1], pair[2])

\* C20 as stated: two different valid (contexts, key) pairs, whose segments
\* and keys may contain the separator, have different item names, so set or
\* delete under one pair never changes what get returns under the other.
C20_Isolation ==
    [][C20_Writes => C20_Untouched(ValidPairs)]_vars

\* C20 amended: two different valid (contexts, key) pairs whose segments and
\* keys do not contain the separator have different item names, so set or
\* delete under one never changes what get returns under the other.
C20_IsolationSeparatorFree ==
    [][(C20_Writes /\ SeparatorFree(contexts, key))
          => C20_Untouched(SeparatorFreePairs)]_vars

\* set(["a"], "x", 12) has returned on a store that held "a.b.x": both items
\* are there, the first one with its old text
C20_Witness ==
    /\ storeResult.op = "set"
    /\ ~storeResult.threw
    /\ contexts = <<StrA>> /\ key = StrX
    /\ DOMAIN storage = {StrADotBDotX, <<"a", Separator, "x">>}
    /\ storage[StrADotBDotX] = ToJson(7)
    /\ storage[<<"a", Separator, "x">>] = ToJson(12)

====
